---- MODULE Spec2Model ----
(***************************************************************************)
(* Model of AquiferGit.run (src/aquifer-git.js): option merging and        *)
(* validation, followed by the promise chain createDir -> clone ->         *)
(* checkout (or checkout -b) -> build -> copy -> clear index -> add ->     *)
(* commit -> push -> remove -> success, with the trailing catch handler.   *)
(*                                                                         *)
(* Paths are sequences of segments; path.join is concatenation and a       *)
(* relative path is resolved against the process working directory.       *)
(* Every external operation (mktemp, run.invoke, build.create, fs-extra)   *)
(* settles with success or failure chosen by the environment.             *)
(***************************************************************************)
EXTENDS Integers, Sequences, FiniteSets, TLC

VARIABLES
    command,    \* first argument of AquiferGit.run
    cfg,        \* AquiferGitConfig (static configuration)
    cli,        \* commandOptions (command line)
    cwd,        \* working directory of the process
    options,    \* the local `options` object
    destPath,   \* the local `destPath`
    pc,         \* operation of the chain that was started last
    status,     \* state of that operation's promise
    val,        \* value or reason the promise settled with
    exists,     \* directories present on the filesystem
    made,       \* directories mktemp has created
    files,      \* contents of the files the copy step can touch
    trace,      \* observable events, in order
    calls       \* arguments the callback has received, in order

vars == <<command, cfg, cli, cwd, options, destPath, pc, status, val,
          exists, made, files, trace, calls>>

----------------------------------------------------------------------------
(* Bounds *)

\* Largest number of options the static configuration supplies.
MaxStaticSet == 1

\* Largest number of entries of deploymentFiles.
MaxFiles == 2

\* Largest number of options one source supplies when the merge is examined.
MaxMergeSet == 2

----------------------------------------------------------------------------
(* Values *)

\* undefined / false / missing key
NONE == "none"
\* the empty string ''
EMPTY == ""

Truthy(v) == v \notin {NONE, EMPTY}

OptionNames == {"remote", "branch", "message", "folder", "name", "email", "debug"}

\* the options that hold arrays; the command line has no flag for them
ListOptionNames == {"deploymentFiles", "excludeLinks", "addLinks", "delPatterns"}

requiredOptions == <<"remote", "branch", "message">>

\* undefined path
Undefined == <<>>

ProjectDir == <<"project">>

WorkingDirs == {ProjectDir, ProjectDir \o <<"sub">>}

\* the name mktemp generates from 'aquifer-git-XXXXXXX'
TmpName == <<"aquifer-git-XXXXXXX">>

Commands == {"deploy-git", "build"}

\* link.src is relative to the project, link.dest to the workspace; a
\* destination may climb out of the workspace with '..'
FileSources == {<<"a">>, <<"b">>}
FileDests == {<<"x">>, <<"..", "b">>}
FilePairs == [src : FileSources, dest : FileDests]

FileLists == UNION {[1..k -> FilePairs] : k \in 0..MaxFiles}

NoKeys == [n \in {} |-> n]

\* the array-valued keys of a static configuration: any subset may be present
ListConfigsOver(fileLists) ==
    {(IF df = <<>> THEN NoKeys ELSE "deploymentFiles" :> df[1])
       @@ (IF ex THEN "excludeLinks" :> <<"cfg">> ELSE NoKeys)
       @@ (IF ad THEN "addLinks" :> <<"cfg">> ELSE NoKeys)
       @@ (IF de THEN "delPatterns" :> <<"cfg">> ELSE NoKeys) :
       df \in {<<>>} \cup {<<l>> : l \in fileLists}, ex \in BOOLEAN, ad \in BOOLEAN, de \in BOOLEAN}

\* deploymentFiles of at most one entry
ShortFileLists == {l \in FileLists : Len(l) <= 1}

\* number of options a static configuration supplies
Supplies(c) ==
    Cardinality({n \in DOMAIN c : n \in ListOptionNames \/ c[n] # NONE})

StaticConfigs ==
    {c \in {s @@ l : s \in [OptionNames -> {NONE, "cfg"}],
                     l \in ListConfigsOver(ShortFileLists)} :
        Supplies(c) <= MaxStaticSet}

\* Inputs for the merge: a source may also supply a falsy value ('' here)
MergeStaticConfigs ==
    {c \in {s @@ l : s \in [OptionNames -> {NONE, EMPTY, "cfg"}],
                     l \in ListConfigsOver({<<>>})} :
        Supplies(c) <= MaxMergeSet}

MergeCommandOptions ==
    {c \in [OptionNames -> {NONE, EMPTY, "cli"}] : Supplies(c) <= MaxMergeSet}

CommandOptions == [OptionNames -> {NONE, "cli"}]

----------------------------------------------------------------------------
(* Pure helpers *)

\* path.normalize: a '..' segment removes the segment before it
RECURSIVE Normalize(_, _)
Normalize(done, rest) ==
    IF rest = <<>> THEN done
    ELSE IF Head(rest) = ".." /\ done # <<>>
         THEN Normalize(SubSeq(done, 1, Len(done) - 1), Tail(rest))
         ELSE Normalize(Append(done, Head(rest)), Tail(rest))

\* path.join(a, b)
Join(a, b) == Normalize(<<>>, a \o b)

\* a path handed to fs or to a child process, resolved against cwd
Resolve(p) == IF p = Undefined THEN Undefined ELSE Join(cwd, p)

\* path.join(Aquifer.projectDir, destPath): the directory given to git -C
GitDir == Join(ProjectDir, destPath)

\* variant: the value already present wins
CustomizerKeepLast(lastValue, nextValue) == IF Truthy(lastValue) THEN lastValue ELSE nextValue

\* customizer of _.assign
Customizer(lastValue, nextValue) == IF Truthy(nextValue) THEN nextValue ELSE lastValue

\* _.assign(options, AquiferGitConfig, commandOptions, customizer)
\* An array is truthy, so a key of arrays is taken from the source that has it.
Assign(object, config, cmdOptions) ==
    [n \in DOMAIN object |->
        IF n \in ListOptionNames
        THEN (IF n \in DOMAIN config THEN config[n] ELSE object[n])
        ELSE Customizer(Customizer(object[n], config[n]), cmdOptions[n])]

\* the options object literal; the scalar options start out undefined
DefaultOptions ==
    [n \in OptionNames |-> NONE]
      @@ ("deploymentFiles" :> <<>>)
      @@ ("excludeLinks" :> <<"sites/default/files">>)
      @@ ("addLinks" :> <<>>)
      @@ ("delPatterns" :> <<"*", "!.git">>)

RECURSIVE MissingFrom(_, _)
MissingFrom(opts, names) ==
    IF names = <<>> THEN <<>>
    ELSE (IF Truthy(opts[Head(names)]) THEN <<>> ELSE <<Head(names)>>)
         \o MissingFrom(opts, Tail(names))

\* variant: the check forgets the last required option
MissingOptionsNoMessage(opts) == MissingFrom(opts, SubSeq(requiredOptions, 1, 2))

\* names for which requiredOptions.forEach calls the callback
MissingOptions(opts) == MissingFrom(opts, requiredOptions)

\* variant: the test is written the wrong way round
NameWithoutEmail(opts) == Truthy(opts["name"]) /\ ~Truthy(opts["email"])

\* options.email && !options.name
EmailWithoutName(opts) == Truthy(opts["email"]) /\ ~Truthy(opts["name"])

\* variant: the debug flag is ignored
CleanupAlways(opts) == TRUE

\* !options.debug
CleanupWanted(opts) == ~Truthy(opts["debug"])

\* callback arguments and rejection reasons
InvalidCommand == <<"Invalid command.">>
MissingMsg(name) == <<"option is missing. Cannot deploy.", name>>
NameRequired == <<"Name is required for a custom commit signature if the email is provided.">>
Err(step) == <<"error", step>>

RECURSIVE MapMissing(_)
MapMissing(names) ==
    IF names = <<>> THEN <<>> ELSE <<MissingMsg(Head(names))>> \o MapMissing(Tail(names))

\* value handed to callback by the catch handler
CallbackArg(err) == err

Ev(kind, step, path) == <<kind, step, path>>

----------------------------------------------------------------------------
(* Initial state: before AquiferGit.run is called *)

\* the files of the project that deploymentFiles can name
ProjectFiles ==
    (Join(ProjectDir, <<"a">>) :> "A") @@ (Join(ProjectDir, <<"b">>) :> "B")

\* what the build may leave at <workspace>/x: nothing, or a built file
BuildOutputs == {NONE, "built"}

\* the locals of run and the world before run is called
Fresh ==
    /\ options = DefaultOptions
    /\ destPath = Undefined
    /\ pc = "init"
    /\ status = "idle"
    /\ val = Undefined
    /\ exists = {}
    /\ made = {}
    /\ files = ProjectFiles
    /\ trace = <<>>
    /\ calls = <<>>

Init ==
    /\ command \in Commands
    /\ cfg \in StaticConfigs
    /\ cli \in CommandOptions
    /\ cwd \in WorkingDirs
    /\ Fresh

\* deploy-git called with any pair of sources for the merge
MergeInit ==
    /\ command = "deploy-git"
    /\ cfg \in MergeStaticConfigs
    /\ cli \in MergeCommandOptions
    /\ cwd = ProjectDir
    /\ Fresh

\* deploy-git called from the project directory with every required option
\* on the command line and any deploymentFiles in the static configuration
CopyInit ==
    /\ command = "deploy-git"
    /\ cfg \in {[n \in OptionNames |-> NONE] @@ ("deploymentFiles" :> l) : l \in FileLists}
    /\ cli = [n \in OptionNames |-> IF n \in {"remote", "branch", "message"} THEN "cli" ELSE NONE]
    /\ cwd = ProjectDir
    /\ Fresh

inputs == <<command, cfg, cli, cwd>>

----------------------------------------------------------------------------
(* Promise plumbing *)

\* variant: a handler that runs on rejection as well (.then used as .finally)
Settled(step) == pc = step /\ status \in {"ok", "fail"}

\* the promise of `step` has been fulfilled
Fulfilled(step) == pc = step /\ status = "ok"

\* the promise of `step` has been rejected
Rejected(step) == pc = step /\ status = "fail"

\* variant: the signature is attached only when an email is configured
SignatureWhenEmail(opts) ==
    IF Truthy(opts["email"]) THEN <<<<opts["name"], opts["email"]>>>> ELSE <<>>

\* --author "name <email>" of the commit step, with options.email || ''
Signature(opts) ==
    IF Truthy(opts["name"])
    THEN <<<<opts["name"], IF Truthy(opts["email"]) THEN opts["email"] ELSE EMPTY>>>>
    ELSE <<>>

\* what an operation is given besides its directory: the words of the git
\* command line, or buildOptions for build.create
CommandArgs(step, opts) ==
    CASE step = "clone" -> <<<<opts["remote"]>>>>
      [] step \in {"checkout", "createBranch", "push"} -> <<<<opts["branch"]>>>>
      [] step = "commit" -> <<<<opts["message"]>>>> \o Signature(opts)
      [] step = "build" -> <<<<"symlink: false">>, opts["delPatterns"],
                             opts["excludeLinks"], opts["addLinks"]>>
      [] OTHER -> <<>>

\* a handler starts an asynchronous operation on `path`
Start(step, logged, path) ==
    /\ pc' = step
    /\ status' = "pending"
    /\ val' = Undefined
    /\ trace' = trace \o logged
                    \o <<Ev("start", step, path) \o <<CommandArgs(step, options)>>>>

\* steps whose command is `git -C <GitDir> ...`
GitDashC == {"checkout", "createBranch", "add", "commit", "push"}

\* a handler runs a synchronous operation on `path` that returns or throws
Sync(step, logged, path, outcome) ==
    /\ pc' = step
    /\ status' = outcome
    /\ val' = IF outcome = "fail" THEN Err(step) ELSE Undefined
    /\ trace' = trace \o logged \o <<Ev("start", step, path), Ev(outcome, step, path)>>

Log(step) == <<Ev("log", step, Undefined)>>

\* fs.removeSync(path): the directory is gone when it returns
Removed(path) == exists \ {path}

IsPrefix(dir, path) == Len(dir) <= Len(path) /\ SubSeq(path, 1, Len(dir)) = dir

\* the files that remain when fs.removeSync(path) returns
Without(fs, path) ==
    IF path = Undefined THEN fs
    ELSE [q \in {r \in DOMAIN fs : ~IsPrefix(path, r)} |-> fs[q]]

\* src and dest of the copy step for every entry of deploymentFiles
ResolvedPairs(list) ==
    [i \in DOMAIN list |->
        <<Join(ProjectDir, list[i].src), Resolve(Join(destPath, list[i].dest))>>]

\* variant: an existing destination is kept (no removeSync, clobber: false)
CopyOneNoClobber(fs, pair) ==
    IF pair[1] \notin DOMAIN fs THEN [fs |-> fs, ok |-> FALSE]
    ELSE IF pair[2] \in DOMAIN fs THEN [fs |-> fs, ok |-> TRUE]
    ELSE [fs |-> (pair[2] :> fs[pair[1]]) @@ fs, ok |-> TRUE]

\* fs.removeSync(dest); fs.copySync(src, dest, {clobber: true})
\* copySync throws when src does not exist
CopyOne(fs, pair) ==
    LET cleared == Without(fs, pair[2])
    IN  IF pair[1] \in DOMAIN cleared
        THEN [fs |-> (pair[2] :> cleared[pair[1]]) @@ cleared, ok |-> TRUE]
        ELSE [fs |-> cleared, ok |-> FALSE]

\* options.deploymentFiles.forEach(...): stops at the first throw
RECURSIVE CopyAll(_, _)
CopyAll(fs, pairs) ==
    IF pairs = <<>> THEN [fs |-> fs, ok |-> TRUE]
    ELSE LET first == CopyOne(fs, Head(pairs))
         IN  IF first.ok THEN CopyAll(first.fs, Tail(pairs)) ELSE first

----------------------------------------------------------------------------
(* AquiferGit.run up to the call of mktemp.createDir *)

Bail(messages) ==
    /\ calls' = calls \o messages
    /\ pc' = "rejected"
    /\ status' = "settled"
    /\ UNCHANGED <<val, trace>>

Run ==
    /\ pc = "init"
    /\ IF command # "deploy-git"
       THEN Bail(<<InvalidCommand>>) /\ UNCHANGED options
       ELSE /\ options' = Assign(options, cfg, cli)
            /\ IF MissingOptions(options') # <<>>
               THEN Bail(MapMissing(MissingOptions(options')))
               ELSE IF EmailWithoutName(options')
               THEN Bail(<<NameRequired>>)
               ELSE Start("createDir", <<>>, Resolve(TmpName)) /\ UNCHANGED calls
    /\ UNCHANGED <<inputs, destPath, exists, made, files>>

----------------------------------------------------------------------------
(* The environment settles the operation in flight *)

\* git -C <dir> needs the directory; git clone needs its destination
CanSucceed(step) ==
    /\ step \in GitDashC => GitDir \in exists
    /\ step \in {"clone", "build"} => Resolve(destPath) \in exists

Fulfil ==
    /\ status = "pending"
    /\ CanSucceed(pc)
    /\ status' = "ok"
    /\ val' = IF pc = "createDir" THEN TmpName ELSE Undefined
    /\ exists' = IF pc = "createDir" THEN exists \cup {Resolve(TmpName)} ELSE exists
    /\ made' = IF pc = "createDir" THEN made \cup {Resolve(TmpName)} ELSE made
    /\ \E out \in (IF pc = "build" THEN BuildOutputs ELSE {NONE}) :
          files' = IF out = NONE THEN files
                   ELSE (Resolve(Join(destPath, <<"x">>)) :> out) @@ files
    /\ trace' = trace \o <<Ev("ok", pc, Undefined)>>
    /\ UNCHANGED <<inputs, options, destPath, pc, calls>>

Reject ==
    /\ status = "pending"
    /\ status' = "fail"
    /\ val' = Err(pc)
    /\ trace' = trace \o <<Ev("fail", pc, Undefined)>>
    /\ UNCHANGED <<inputs, options, destPath, pc, exists, made, files, calls>>

----------------------------------------------------------------------------
(* The handlers of the promise chain *)

\* .then((destPath_) => ...): log, destPath = destPath_, git clone
CloneStep ==
    /\ Fulfilled("createDir")
    /\ destPath' = val
    /\ Start("clone", Log("clone"), Join(cwd, val))
    /\ UNCHANGED <<inputs, options, exists, made, files, calls>>

\* .then(() => run.invoke('git -C ... checkout ' + branch) ...
CheckoutStep ==
    /\ Fulfilled("clone")
    /\ Start("checkout", <<>>, GitDir)
    /\ UNCHANGED <<inputs, options, destPath, exists, made, files, calls>>

\* inner .then: log 'Checking out branch'
CheckedOut ==
    /\ Fulfilled("checkout")
    /\ pc' = "checkedOut"
    /\ status' = "ok"
    /\ trace' = trace \o Log("checkout")
    /\ UNCHANGED <<inputs, options, destPath, val, exists, made, files, calls>>

\* variant: a failed checkout is tried again
CheckoutAgain ==
    /\ Rejected("checkout")
    /\ Start("checkout", <<>>, GitDir)
    /\ UNCHANGED <<inputs, options, destPath, exists, made, files, calls>>

\* inner .catch: log 'Creating new branch', git checkout -b
CreateBranch ==
    /\ Rejected("checkout")
    /\ Start("createBranch", Log("createBranch"), GitDir)
    /\ UNCHANGED <<inputs, options, destPath, exists, made, files, calls>>

\* variant: the folder option is ignored
BuildPathRoot(opts, dest) == dest

\* buildPath of the build step
BuildPath(opts, dest) ==
    IF Truthy(opts["folder"]) THEN Join(dest, <<opts["folder"]>>) ELSE dest

BuildStep ==
    /\ Fulfilled("checkedOut") \/ Fulfilled("createBranch")
    /\ Start("build", Log("build"), Resolve(BuildPath(options, destPath)))
    /\ UNCHANGED <<inputs, options, destPath, exists, made, files, calls>>

\* options.deploymentFiles.forEach(removeSync; copySync)
\* A copy can also fail on an entry for a reason of the filesystem; the
\* entries before it have been copied by then.
CopyStep ==
    /\ Fulfilled("build")
    /\ LET pairs == ResolvedPairs(options["deploymentFiles"])
           all == CopyAll(files, pairs)
       IN  \/ /\ Sync("copy", Log("copy"), Resolve(destPath), IF all.ok THEN "ok" ELSE "fail")
               /\ files' = all.fs
           \/ \E k \in DOMAIN pairs :
                 LET before == CopyAll(files, SubSeq(pairs, 1, k - 1))
                 IN  /\ before.ok
                     /\ Sync("copy", Log("copy"), Resolve(destPath), "fail")
                     /\ files' = before.fs
    /\ UNCHANGED <<inputs, options, destPath, exists, made, calls>>

\* fs.removeSync(path.join(Aquifer.projectDir, destPath, '.git/index'))
ClearIndexStep ==
    /\ Fulfilled("copy")
    /\ \E outcome \in {"ok", "fail"} :
          Sync("clearIndex", Log("clearIndex"), Join(GitDir, <<".git", "index">>), outcome)
    /\ UNCHANGED <<inputs, options, destPath, exists, made, files, calls>>

AddStep ==
    /\ Fulfilled("clearIndex")
    /\ Start("add", Log("add"), GitDir)
    /\ UNCHANGED <<inputs, options, destPath, exists, made, files, calls>>

\* options.email = options.email || '' when options.name is set
CommitStep ==
    /\ Fulfilled("add")
    /\ options' = IF Truthy(options["name"]) /\ ~Truthy(options["email"])
                  THEN [options EXCEPT !["email"] = EMPTY]
                  ELSE options
    /\ Start("commit", Log("commit"), GitDir)
    /\ UNCHANGED <<inputs, destPath, exists, made, files, calls>>

PushStep ==
    /\ Fulfilled("commit")
    /\ Start("push", Log("push"), GitDir)
    /\ UNCHANGED <<inputs, options, destPath, exists, made, files, calls>>

\* variant: the removal runs after a failed push as well and lets the
\* failure pass on to the catch handler
RemoveStepFinally ==
    /\ Settled("push")
    /\ pc' = "remove"
    /\ UNCHANGED <<status, val>>
    /\ trace' = trace \o Log("remove")
                    \o <<Ev("start", "remove", Resolve(destPath)),
                         Ev("ok", "remove", Resolve(destPath))>>
    /\ exists' = IF CleanupWanted(options) THEN Removed(Resolve(destPath)) ELSE exists
    /\ files' = IF CleanupWanted(options) THEN Without(files, Resolve(destPath)) ELSE files
    /\ UNCHANGED <<inputs, options, destPath, made, calls>>

\* if (!options.debug) { log; fs.removeSync(destPath) }
RemoveStep ==
    /\ Fulfilled("push")
    /\ IF CleanupWanted(options)
       THEN \E outcome \in {"ok", "fail"} :
               /\ Sync("remove", Log("remove"), Resolve(destPath), outcome)
               /\ exists' = IF outcome = "ok" THEN Removed(Resolve(destPath)) ELSE exists
               /\ files' = IF outcome = "ok" THEN Without(files, Resolve(destPath)) ELSE files
       ELSE /\ pc' = "remove"
            /\ status' = "ok"
            /\ UNCHANGED <<val, trace, exists, files>>
    /\ UNCHANGED <<inputs, options, destPath, made, calls>>

\* variant: success is reported right after the push
SuccessAfterPush ==
    /\ Fulfilled("push")
    /\ pc' = "done"
    /\ status' = "settled"
    /\ trace' = trace \o Log("success")
    /\ UNCHANGED <<inputs, options, destPath, val, exists, made, files, calls>>

SuccessStep ==
    /\ Fulfilled("remove")
    /\ pc' = "done"
    /\ status' = "settled"
    /\ trace' = trace \o Log("success")
    /\ UNCHANGED <<inputs, options, destPath, val, exists, made, files, calls>>

\* variant: callback(err) is called before the workspace is removed
CatchCallbackFirst ==
    /\ status = "fail"
    /\ pc # "checkout"
    /\ status' = "settled"
    /\ calls' = Append(calls, CallbackArg(val))
    /\ IF CleanupWanted(options)
       THEN \E outcome \in {"ok", "fail"} :
               /\ trace' = trace \o <<Ev("callback", pc, Undefined),
                                      Ev("start", "cleanup", Resolve(destPath)),
                                      Ev(outcome, "cleanup", Resolve(destPath))>>
               /\ exists' = IF outcome = "ok" THEN Removed(Resolve(destPath)) ELSE exists
               /\ files' = IF outcome = "ok" THEN Without(files, Resolve(destPath)) ELSE files
               /\ pc' = IF outcome = "ok" THEN "failed" ELSE "silent"
       ELSE /\ trace' = Append(trace, Ev("callback", pc, Undefined))
            /\ pc' = "failed"
            /\ UNCHANGED <<exists, files>>
    /\ UNCHANGED <<inputs, options, destPath, val, made>>

\* .catch((err) => { if (!options.debug) fs.removeSync(destPath); callback(err); })
\* A throw of removeSync leaves the handler before callback is reached.
Catch ==
    /\ status = "fail"
    /\ pc # "checkout"
    /\ status' = "settled"
    /\ IF CleanupWanted(options)
       THEN \E outcome \in {"ok", "fail"} :
               /\ trace' = trace \o <<Ev("start", "cleanup", Resolve(destPath)),
                                      Ev(outcome, "cleanup", Resolve(destPath))>>
                            \o (IF outcome = "ok" THEN <<Ev("callback", pc, Undefined)>> ELSE <<>>)
               /\ exists' = IF outcome = "ok" THEN Removed(Resolve(destPath)) ELSE exists
               /\ files' = IF outcome = "ok" THEN Without(files, Resolve(destPath)) ELSE files
               /\ calls' = IF outcome = "ok" THEN Append(calls, CallbackArg(val)) ELSE calls
               /\ pc' = IF outcome = "ok" THEN "failed" ELSE "silent"
       ELSE /\ trace' = Append(trace, Ev("callback", pc, Undefined))
            /\ calls' = Append(calls, CallbackArg(val))
            /\ pc' = "failed"
            /\ UNCHANGED <<exists, files>>
    /\ UNCHANGED <<inputs, options, destPath, val, made>>

Next ==
    \/ Run
    \/ Fulfil
    \/ Reject
    \/ CloneStep
    \/ CheckoutStep
    \/ CheckedOut
    \/ CreateBranch
    \/ BuildStep
    \/ CopyStep
    \/ ClearIndexStep
    \/ AddStep
    \/ CommitStep
    \/ PushStep
    \/ RemoveStep
    \/ SuccessStep
    \/ Catch

Spec == Init /\ [][Next]_vars

MergeSpec == MergeInit /\ [][Next]_vars

CopySpec == CopyInit /\ [][Next]_vars

TypeOK ==
    /\ pc \in {"init", "rejected", "createDir", "clone", "checkout", "checkedOut",
               "createBranch", "build", "copy", "clearIndex", "add", "commit",
               "push", "remove", "done", "failed", "silent"}
    /\ status \in {"idle", "pending", "ok", "fail", "settled"}
    /\ destPath \in {Undefined, TmpName}
    /\ exists \subseteq made

----------------------------------------------------------------------------
(* Vocabulary of the properties *)

Terminated == pc \in {"rejected", "done", "failed", "silent"}

Debug == Truthy(options["debug"])

\* the options as they are after merging, computed from the inputs
Merged == Assign(DefaultOptions, cfg, cli)

RequiredSet == {requiredOptions[i] : i \in DOMAIN requiredOptions}

SomeRequiredMissing == \E n \in RequiredSet : ~Truthy(Merged[n])

Has(kind, step) == \E i \in DOMAIN trace : trace[i][1] = kind /\ trace[i][2] = step

Count(kind, step) ==
    Cardinality({i \in DOMAIN trace : trace[i][1] = kind /\ trace[i][2] = step})

\* every (kind2, step2) event has an earlier (kind1, step1) event
Precedes(kind1, step1, kind2, step2) ==
    \A j \in DOMAIN trace :
        (trace[j][1] = kind2 /\ trace[j][2] = step2)
        => \E i \in 1..(j - 1) : trace[i][1] = kind1 /\ trace[i][2] = step1

\* steps whose failure ends the run (a failed checkout does not)
FatalSteps == {"clone", "createBranch", "build", "copy", "clearIndex", "add", "commit", "push"}

NoSideEffect == trace = <<>> /\ exists = {} /\ made = {}

\* the most recent fs.removeSync of the run threw
LastRemovalThrew ==
    \E i \in DOMAIN trace :
        /\ trace[i][1] = "fail" /\ trace[i][2] \in {"remove", "cleanup"}
        /\ \A j \in (i + 1)..Len(trace) :
              ~(trace[j][1] = "ok" /\ trace[j][2] \in {"remove", "cleanup"})

----------------------------------------------------------------------------
(* C1: when remote, branch or message is missing after option merging, run *)
(* reports a configuration error through the callback and has no side      *)
(* effect: no workspace, no git command, no build, no copy, no removal.    *)
C1_MissingOptionNoSideEffect ==
    (command = "deploy-git" /\ pc # "init" /\ SomeRequiredMissing)
    => /\ pc = "rejected"
       /\ calls # <<>>
       /\ \A i \in DOMAIN calls : \E n \in RequiredSet : calls[i] = MissingMsg(n)
       /\ NoSideEffect

C1_Witness ==
    /\ pc = "rejected" /\ command = "deploy-git"
    /\ ~Truthy(Merged["message"]) /\ Truthy(Merged["remote"]) /\ Truthy(Merged["branch"])
    /\ calls = <<MissingMsg("message")>>

(* C2: with email set, name unset and all required options present, run   *)
(* reports a configuration error before the workspace is created and no    *)
(* workspace, git, build or filesystem operation happens.                  *)
C2_EmailWithoutNameRejected ==
    (/\ command = "deploy-git" /\ pc # "init" /\ ~SomeRequiredMissing
     /\ Truthy(Merged["email"]) /\ ~Truthy(Merged["name"]))
    => /\ pc = "rejected"
       /\ calls = <<NameRequired>>
       /\ NoSideEffect

C2_Witness ==
    /\ pc = "rejected" /\ calls = <<NameRequired>>
    /\ Truthy(Merged["email"]) /\ ~Truthy(Merged["name"]) /\ ~SomeRequiredMissing

(* C3 as stated: once a run that created a workspace has terminated, the   *)
(* workspace directory exists if and only if debug is set.                 *)
C3_Original ==
    (Terminated /\ made # {}) => ((exists # {}) <=> Debug)

(* C3 amended: once a run that created a workspace has terminated, the     *)
(* workspace directory exists if and only if debug is set or the last      *)
(* fs.removeSync of the run threw.                                         *)
C3_WorkspaceExistsIffDebugOrRemovalThrew ==
    (Terminated /\ made # {}) => ((exists = made) <=> (Debug \/ LastRemovalThrew))

C3_Witness ==
    /\ pc = "failed" /\ Has("fail", "push") /\ made # {} /\ exists = {} /\ ~Debug

(* C4 as stated: a failed checkout leads to exactly one checkout -b, whose *)
(* success is followed by the build; a successful checkout leads to none;  *)
(* when checkout -b fails too the callback is invoked, no later step runs  *)
(* and the workspace is removed when debug is unset.                       *)
C4_Original ==
    /\ Count("start", "createBranch") <= 1
    /\ (Has("fail", "checkout") /\ Terminated) => Count("start", "createBranch") = 1
    /\ Has("ok", "checkout") => ~Has("start", "createBranch")
    /\ (Has("ok", "createBranch") /\ Terminated) => Has("start", "build")
    /\ (Has("fail", "createBranch") /\ Terminated)
       => /\ calls = <<Err("createBranch")>>
          /\ \A s \in {"build", "copy", "clearIndex", "add", "commit", "push", "remove"} :
                ~Has("start", s)
          /\ ~Has("log", "success")
          /\ ~Debug => exists = {}

(* The steps of the chain in the order in which run registers them. The   *)
(* removal of the catch handler ("cleanup") is not one of them.            *)
StepOrder == <<"createDir", "clone", "checkout", "createBranch", "build", "copy",
               "clearIndex", "add", "commit", "push", "remove", "success">>

Pos(step) == CHOOSE i \in DOMAIN StepOrder : StepOrder[i] = step

\* the event with which a step of the chain starts
IsStepStart(e) ==
    \/ e[1] = "start" /\ e[2] # "cleanup"
    \/ e[1] = "log" /\ e[2] = "success"

\* the settlements that let a step start
Enabling(step) ==
    CASE step = "createDir" -> {}
      [] step = "createBranch" -> {<<"fail", "checkout">>}
      [] step = "build" -> {<<"ok", "checkout">>, <<"ok", "createBranch">>}
      [] step = "success" -> IF Debug THEN {<<"ok", "push">>} ELSE {<<"ok", "remove">>}
      [] OTHER -> {<<"ok", StepOrder[Pos(step) - 1]>>}

IsFatalFailure(e) == e[1] = "fail" /\ e[2] \in (FatalSteps \cup {"createDir", "remove"})

(* C5: the steps start in the order createDir, clone, checkout (or         *)
(* checkout -b), build, copy, clear index, add, commit, push, remove,      *)
(* success; a step starts only after the step before it has completed      *)
(* successfully, and after the first fatal failure no step starts.         *)
C5_StepsInTotalOrder ==
    \A j \in DOMAIN trace :
        IsStepStart(trace[j])
        => /\ \A i \in 1..(j - 1) :
                 /\ IsStepStart(trace[i]) => Pos(trace[i][2]) < Pos(trace[j][2])
                 /\ ~IsFatalFailure(trace[i])
           /\ trace[j][2] # "createDir"
              => \E i \in 1..(j - 1) : <<trace[i][1], trace[i][2]>> \in Enabling(trace[j][2])
           /\ (trace[j][2] = "createDir") => j = 1

C5_Witness ==
    /\ pc = "failed" /\ Has("fail", "add") /\ Has("ok", "createBranch")
    /\ ~Has("start", "commit")

(* C6 as stated: when a run fails at clone, checkout -b, build, copy,      *)
(* clear index, add, commit or push, the callback receives exactly the     *)
(* error of that step, exactly once.                                       *)
C6_Original ==
    \A s \in FatalSteps : (Terminated /\ Has("fail", s)) => calls = <<Err(s)>>

(* C7: the success message is logged only when every step through push     *)
(* succeeded and only after the workspace removal has completed or was     *)
(* suppressed by debug; it is never logged in a run with a fatal failure;  *)
(* and the callback is never invoked in a run in which every step succeeds.*)
C7_SuccessOnlyAfterCleanup ==
    /\ Has("log", "success")
       => /\ \A s \in {"createDir", "clone", "build", "copy", "clearIndex",
                        "add", "commit", "push"} : Has("ok", s)
          /\ Has("ok", "checkout") \/ Has("ok", "createBranch")
          /\ Debug \/ Precedes("ok", "remove", "log", "success")
          /\ Debug => ~Has("start", "remove")
    /\ (\E i \in DOMAIN trace : IsFatalFailure(trace[i])) => ~Has("log", "success")
    /\ (trace # <<>> /\ \A i \in DOMAIN trace : ~IsFatalFailure(trace[i])) => calls = <<>>

C7_Witness ==
    /\ pc = "done" /\ ~Debug /\ Has("ok", "remove") /\ exists = {} /\ calls = <<>>

(* C8 as stated: when mktemp.createDir fails the creation error reaches    *)
(* the callback, no clone or later step starts and no removal is attempted.*)
C8_Original ==
    (Terminated /\ Has("fail", "createDir"))
    => /\ calls = <<Err("createDir")>>
       /\ \A s \in {"clone", "checkout", "createBranch", "build", "copy", "clearIndex",
                    "add", "commit", "push", "remove", "cleanup"} : ~Has("start", s)

(* C9: on a failure after the workspace was created and with debug unset,  *)
(* the workspace is removed before the callback receives the error; the    *)
(* callback is never invoked while the workspace still exists.             *)
C9_RemovedBeforeCallback ==
    (made # {} /\ ~Debug)
    => /\ \A j \in DOMAIN trace :
              trace[j][1] = "callback"
              => \E i \in 1..(j - 1) :
                    trace[i][1] = "ok" /\ trace[i][2] = "cleanup" /\ trace[i][3] \in made
       /\ calls # <<>> => exists = {}

C9_Witness ==
    /\ pc = "failed" /\ made # {} /\ ~Debug /\ calls = <<Err("build")>> /\ exists = {}

(* C10 as stated: for every step (clone, checkout, checkout -b, build,     *)
(* copy, clear index, add, commit, push, removal) the status message of    *)
(* the step is logged before the operation of the step is started.         *)
C10_Original ==
    \A s \in {"clone", "checkout", "createBranch", "build", "copy", "clearIndex",
              "add", "commit", "push", "remove"} :
        Precedes("log", s, "start", s)

\* a source supplies a value for an option
SuppliedBy(source, n) ==
    n \in DOMAIN source /\ (n \in ListOptionNames \/ source[n] # NONE)

\* a source supplies a truthy value for an option (an array is truthy)
TruthyFrom(source, n) ==
    n \in DOMAIN source /\ (n \in ListOptionNames \/ Truthy(source[n]))

(* C11 as stated: when both sources supply a value the merged option is    *)
(* the command line's; when one does it is that one's; when neither does   *)
(* the built-in default is kept.                                           *)
C11_Original ==
    (command = "deploy-git" /\ pc # "init")
    => \A n \in DOMAIN DefaultOptions :
          /\ (SuppliedBy(cfg, n) /\ SuppliedBy(cli, n)) => options[n] = cli[n]
          /\ (SuppliedBy(cfg, n) /\ ~SuppliedBy(cli, n)) => options[n] = cfg[n]
          /\ (~SuppliedBy(cfg, n) /\ SuppliedBy(cli, n)) => options[n] = cli[n]
          /\ (~SuppliedBy(cfg, n) /\ ~SuppliedBy(cli, n)) => options[n] = DefaultOptions[n]

(* C11 amended: right after the merge, an option for which the command     *)
(* line supplies a truthy value has that value; otherwise, if the static   *)
(* configuration supplies a truthy value, it has that one; otherwise the   *)
(* built-in default (undefined for the scalar options) is kept.            *)
C11_TruthyCliThenTruthyStatic ==
    (command = "deploy-git" /\ pc \in {"rejected", "createDir"})
    => \A n \in DOMAIN DefaultOptions :
          options[n] = IF TruthyFrom(cli, n) THEN cli[n]
                       ELSE IF TruthyFrom(cfg, n) THEN cfg[n]
                       ELSE DefaultOptions[n]

C11_Witness ==
    /\ pc = "rejected"
    /\ cfg["remote"] = "cfg" /\ cli["remote"] = "cli" /\ options["remote"] = "cli"
    /\ cfg["folder"] = "cfg" /\ cli["folder"] = EMPTY /\ options["folder"] = "cfg"
    /\ options["delPatterns"] = <<"*", "!.git">>

\* the copy step has just returned without a throw
Copied == pc = "copy" /\ status = "ok"

CopyPairs == ResolvedPairs(options["deploymentFiles"])

\* running the copy step again from the present state changes no destination
CopyAgainSame ==
    LET again == CopyAll(files, CopyPairs)
    IN  /\ again.ok
        /\ \A i \in DOMAIN CopyPairs :
              /\ CopyPairs[i][2] \in DOMAIN again.fs
              /\ again.fs[CopyPairs[i][2]] = files[CopyPairs[i][2]]

\* a destination holds the source of the last entry that names it
LastPairWins ==
    \A j \in DOMAIN CopyPairs :
        (\A k \in (j + 1)..Len(CopyPairs) : CopyPairs[k][2] # CopyPairs[j][2])
        => /\ CopyPairs[j][1] \in DOMAIN files
           /\ files[CopyPairs[j][2]] = files[CopyPairs[j][1]]

\* no destination of the list is a source of the list
NoAlias ==
    \A i, j \in DOMAIN CopyPairs : CopyPairs[i][2] # CopyPairs[j][1]

C13_SignatureIffName ==
    \A i \in DOMAIN trace :
        (trace[i][1] = "start" /\ trace[i][2] = "commit")
        => /\ trace[i][4][1] = <<Merged["message"]>>
           /\ Truthy(Merged["name"])
              => /\ Len(trace[i][4]) = 2
                 /\ trace[i][4][2] = <<Merged["name"],
                                       IF Truthy(Merged["email"]) THEN Merged["email"] ELSE EMPTY>>
           /\ ~Truthy(Merged["name"])
              => Len(trace[i][4]) = 1 /\ ~Truthy(Merged["email"])

C13_Witness ==
    \E i \in DOMAIN trace :
        /\ trace[i][1] = "start" /\ trace[i][2] = "commit"
        /\ trace[i][4] = <<<<"cli">>, <<"cli", EMPTY>>>>

\* the operations of the gateway and of the builder
GatewaySteps == {"clone", "checkout", "createBranch", "add", "commit", "push", "build"}

(* C14: nothing is retried: in a run clone, checkout, checkout -b, add,    *)
(* commit, push and the build are each invoked at most once.               *)
C14_NoRetry ==
    \A s \in GatewaySteps : Count("start", s) <= 1

C14_Witness ==
    /\ pc = "done" /\ Has("fail", "checkout")
    /\ \A s \in GatewaySteps : Count("start", s) = 1

(* C15 as stated: at most one workspace is created per run and its removal *)
(* is invoked at most once per run, also when the removal of the success   *)
(* path fails and the failure handler takes over.                          *)
C15_Original ==
    /\ Cardinality(made) <= 1
    /\ Count("start", "createDir") <= 1
    /\ Count("start", "remove") + Count("start", "cleanup") <= 1

(* C15 amended: at most one workspace is created per run; its removal is   *)
(* invoked at most once by the success path and at most once by the        *)
(* failure handler, and by both only when the removal of the success path  *)
(* itself failed.                                                          *)
C15_RemovalOncePerBranch ==
    /\ Cardinality(made) <= 1
    /\ Count("start", "createDir") <= 1
    /\ Count("start", "remove") <= 1
    /\ Count("start", "cleanup") <= 1
    /\ (Has("start", "remove") /\ Has("start", "cleanup")) => Has("fail", "remove")

C15_Witness ==
    /\ pc = "failed" /\ Has("fail", "remove") /\ Has("ok", "cleanup")
    /\ Count("start", "remove") = 1 /\ Count("start", "cleanup") = 1
    /\ Cardinality(made) = 1

(* C16: the builder is given the workspace root when folder is unset and   *)
(* the workspace root joined with folder when it is set, always with       *)
(* symlinking disabled and with the merged excludeLinks, addLinks and      *)
(* delete patterns as they are.                                            *)
C16_BuildTarget ==
    \A i \in DOMAIN trace :
        (trace[i][1] = "start" /\ trace[i][2] = "build")
        => /\ \E ws \in made :
                 trace[i][3] = IF Truthy(Merged["folder"])
                               THEN ws \o <<Merged["folder"]>> ELSE ws
           /\ trace[i][4] = <<<<"symlink: false">>, Merged["delPatterns"],
                              Merged["excludeLinks"], Merged["addLinks"]>>

C16_Witness ==
    \E i \in DOMAIN trace :
        /\ trace[i][1] = "start" /\ trace[i][2] = "build"
        /\ Truthy(Merged["folder"])
        /\ trace[i][3] = Join(cwd, TmpName) \o <<"cli">>

(* C17 as stated: a run that passed validation ends either with the        *)
(* success message and no callback, or with one callback and no success    *)
(* message; it never ends with neither.                                    *)
C17_Original ==
    (Terminated /\ trace # <<>>)
    => \/ pc = "done" /\ Has("log", "success") /\ calls = <<>>
       \/ pc = "failed" /\ ~Has("log", "success") /\ Len(calls) = 1

(* C18 as stated: once validation has passed no step changes the value of *)
(* any option.                                                             *)
C18_Original ==
    [][pc # "init" => options' = options]_vars

(* C19 as stated: the callback is invoked at most once per call of run.    *)
C19_Original ==
    Len(calls) <= 1

\* the steps that work on the workspace
WorkspaceSteps == {"clone", "checkout", "createBranch", "build", "copy", "clearIndex",
                   "add", "commit", "push", "remove", "cleanup"}

(* C20 as stated: clone, checkout, checkout -b, build, copy, index clear,  *)
(* add, commit, push and removal all address the directory mktemp created, *)
(* whatever the project directory and the working directory are.           *)
C20_Original ==
    \A i \in DOMAIN trace :
        (trace[i][1] = "start" /\ trace[i][2] \in WorkspaceSteps /\ made # {})
        => \E ws \in made : IsPrefix(ws, trace[i][3])

====
